---- MODULE Spec2Model ----
(***************************************************************************)
(* Verification model of devuo/omiedata: the GeneralDownloader worker pool *)
(* (URLResponses / downloadSingleDate), the importers that consume its     *)
(* result channel, and the text parsers (ParseFloat and the two document   *)
(* parsers).                                                               *)
(***************************************************************************)
EXTENDS Integers, Sequences, FiniteSets, Bags, TLC

(***************************************************************************)
(* Bounds of the model.                                                    *)
(***************************************************************************)
\* largest number of calendar dates in a requested range
MaxDates == 2
\* largest DownloadConfig.MaxRetries explored
MaxRetriesBound == 1
\* largest DownloadConfig.MaxConcurrent explored
MaxConcurrentBound == 2

VARIABLES
    config,               \* GeneralDownloader.config (MaxRetries, MaxConcurrent)
    runConfig,            \* history: the value of config when URLResponses was called
    dateIni, dateEnd,     \* arguments of URLResponses (day numbers)
    ctxDone,              \* ctx.Done() is closed (the caller cancelled)
    nextDate,             \* loop variable d of the goroutine that sends dates
    dateChanClosed,       \* close(dateChan) has run
    workers,              \* bag of the local states of the pool's goroutines
    resultChanClosed,     \* close(resultChan) has run
    delivered,            \* history: every ResponseResult the consumer received, in order,
                          \* with how its parse ended and whether all its answers were 404
    results, errors,      \* locals of Import
    importPc, importRet,  \* position of Import and the value it returned
    inflightAtCancel,     \* history: dates taken and undelivered when ctx was cancelled
    deliveredAfterCancel, \* history: results received after ctx was cancelled
    call,                 \* the parsing function under call and its arguments
    ret                   \* what the call returned

downloaderVars == <<config, runConfig, dateIni, dateEnd, ctxDone, nextDate, dateChanClosed, workers,
                    resultChanClosed, delivered, results, errors, importPc, importRet,
                    inflightAtCancel, deliveredAfterCancel>>

parserVars == <<call, ret>>

vars == <<downloaderVars, parserVars>>

(***************************************************************************)
(* Error values.  An error is a record: its dynamic type, the OMIEError    *)
(* code, the attempt count printed in its message, and the error it wraps. *)
(***************************************************************************)
ErrCodeDownload == "DOWNLOAD_ERROR"
ErrCodeParse == "PARSE_ERROR"
ErrCodeNotFound == "NOT_FOUND"
ErrCodeNetwork == "NETWORK_ERROR"

NilErr == [type |-> "nil", code |-> "", attempts |-> 0, inner |-> "nil"]

NewOMIEError(code, attempts, inner) ==
    [type |-> "OMIEError", code |-> code, attempts |-> attempts, inner |-> inner]

\* ctx.Err() of a cancelled context
CtxErr == [type |-> "ctxError", code |-> "", attempts |-> 0, inner |-> "nil"]

\* fmt.Errorf with %v: a plain error that wraps nothing
FmtErrorf(inner) == [type |-> "fmtError", code |-> "", attempts |-> 0, inner |-> "nil"]

\* the error of time.Parse
TimeParseError == [type |-> "timeParseError", code |-> "", attempts |-> 0, inner |-> "nil"]

\* fmt.Errorf with %w: wraps the parse error
FmtErrorfWrap(inner) == [type |-> "fmtWrapError", code |-> "", attempts |-> 0, inner |-> inner]

(***************************************************************************)
(* The remote's answers to one fetch attempt.                              *)
(***************************************************************************)
Answers == {"ok", "notfound", "httperr", "transport"}

\* the answers that are neither success nor not-found
Transient == {"httperr", "transport"}

\* client.Do on a cancelled context fails without an answer
AnswersUnder(done) == IF done THEN {"transport"} ELSE Answers

generateURL(date) == <<"INT_PBC_EV_H_1", date>>

NoResponse == [date |-> 0, url |-> <<>>, ok |-> FALSE, err |-> NilErr]

\* the ResponseResult downloadSingleDate returns
ResponseResult(w, ok, err) ==
    [date |-> w.date, url |-> generateURL(w.date), ok |-> ok, err |-> err]

(***************************************************************************)
(* Local state of one goroutine of the pool.                               *)
(***************************************************************************)
\* pc, the date received, the loop variables attempt and lastErr, the result
\* to send, and the history of the date's attempts: how many were made, the
\* answer to the last one, whether all were not-found, whether all were
\* transient failures, and whether the attempt about to be made is a retry
\* that left its wait when ctx was already done
IdleW == [pc |-> "idle", date |-> 0, attempt |-> 0, lastErr |-> "nil", res |-> NoResponse,
          made |-> 0, last |-> "none", all404 |-> TRUE, allTransient |-> TRUE,
          lateRetry |-> FALSE]
ExitedW == [IdleW EXCEPT !.pc = "exited"]

Replace(b, old, new) == (b (-) SetToBag({old})) (+) SetToBag({new})

Count(b, w) == IF BagIn(w, b) THEN CopiesIn(w, b) ELSE 0

WorkersAt(pcs) == {w \in BagToSet(workers) : w.pc \in pcs}

\* dates that a worker received from dateChan and has not yet sent on resultChan
InFlight ==
    LET S == WorkersAt({"check", "request", "wait", "send"})
    IN  IF S = {} THEN 0 ELSE BagCardinality([w \in S |-> workers[w]])

\* no parsing function is under call
NoCall == [fn |-> "none"]
NoReturn == [done |-> FALSE]

(***************************************************************************)
(* Init: URLResponses has been called and has started its goroutines.      *)
(***************************************************************************)
\* the configurations explored
Configs == [MaxRetries : 0..MaxRetriesBound, MaxConcurrent : 0..MaxConcurrentBound]

\* a pool with one goroutine too many
PoolSize_OffByOne(maxConcurrent) == maxConcurrent + 1

\* the number of goroutines the loop of line 108 starts
PoolSize(maxConcurrent) == maxConcurrent

Init ==
    /\ config \in Configs
    /\ runConfig = config
    /\ dateIni = 1
    /\ dateEnd \in 1..MaxDates
    /\ ctxDone = FALSE
    /\ nextDate = dateIni
    /\ dateChanClosed = FALSE
    /\ workers = IF PoolSize(config.MaxConcurrent) = 0 THEN EmptyBag
                 ELSE [w \in {IdleW} |-> PoolSize(config.MaxConcurrent)]
    /\ resultChanClosed = FALSE
    /\ delivered = <<>>
    /\ results = <<>>
    /\ errors = <<>>
    /\ importPc = "ranging"
    /\ importRet = [val |-> <<>>, err |-> NilErr]
    /\ inflightAtCancel = 0
    /\ deliveredAfterCancel = 0
    /\ call = NoCall
    /\ ret = NoReturn

(***************************************************************************)
(* URLResponses: the goroutine that sends the dates (lines 125-134).       *)
(***************************************************************************)
\* a sender that steps over a date
AddDay_Skips(d) == d + 2

\* a sender that sends the date it has sent again
AddDay_Repeats(d) == d

\* d.AddDate(0, 0, 1)
AddDay(d) == d + 1

\* case dateChan <- d: an idle worker receives the date.  When ctx is done
\* and a receiver is waiting both cases of the select are ready and Go
\* picks either of them.
SendDate ==
    /\ ~dateChanClosed
    /\ nextDate <= dateEnd
    /\ BagIn(IdleW, workers)
    /\ workers' = Replace(workers, IdleW, [IdleW EXCEPT !.pc = "check", !.date = nextDate])
    /\ nextDate' = AddDay(nextDate)
    /\ UNCHANGED parserVars
    /\ UNCHANGED <<config, runConfig, dateIni, dateEnd, ctxDone, dateChanClosed, resultChanClosed,
                   delivered, results, errors, importPc, importRet,
                   inflightAtCancel, deliveredAfterCancel>>

\* case <-ctx.Done(): return, and the deferred close(dateChan)
SenderCancelled ==
    /\ ~dateChanClosed
    /\ nextDate <= dateEnd
    /\ ctxDone
    /\ dateChanClosed' = TRUE
    /\ UNCHANGED parserVars
    /\ UNCHANGED <<config, runConfig, dateIni, dateEnd, ctxDone, nextDate, workers, resultChanClosed,
                   delivered, results, errors, importPc, importRet,
                   inflightAtCancel, deliveredAfterCancel>>

\* the loop ends (d is after dateEnd), and the deferred close(dateChan)
SenderDone ==
    /\ ~dateChanClosed
    /\ nextDate > dateEnd
    /\ dateChanClosed' = TRUE
    /\ UNCHANGED parserVars
    /\ UNCHANGED <<config, runConfig, dateIni, dateEnd, ctxDone, nextDate, workers, resultChanClosed,
                   delivered, results, errors, importPc, importRet,
                   inflightAtCancel, deliveredAfterCancel>>

(***************************************************************************)
(* URLResponses: one worker of the pool (lines 110-121).                   *)
(***************************************************************************)
\* a worker that does not look at ctx.Done() before it downloads
WorkerProceeds_Unchecked(done) == TRUE

\* the select on ctx.Done() with a default case: TRUE when the worker goes on
\* to download the date it received
WorkerProceeds(done) == ~done

WorkerCheck(w) ==
    /\ w.pc = "check"
    /\ workers' = Replace(workers, w,
                     IF WorkerProceeds(ctxDone)
                     THEN [w EXCEPT !.pc = "request"]
                     ELSE ExitedW)
    /\ UNCHANGED parserVars
    /\ UNCHANGED <<config, runConfig, dateIni, dateEnd, ctxDone, nextDate, dateChanClosed,
                   resultChanClosed, delivered, results, errors, importPc, importRet,
                   inflightAtCancel, deliveredAfterCancel>>

\* range dateChan ends once dateChan is closed; the deferred wg.Done()
WorkerExit ==
    /\ dateChanClosed
    /\ BagIn(IdleW, workers)
    /\ workers' = Replace(workers, IdleW, ExitedW)
    /\ UNCHANGED parserVars
    /\ UNCHANGED <<config, runConfig, dateIni, dateEnd, ctxDone, nextDate, dateChanClosed,
                   resultChanClosed, delivered, results, errors, importPc, importRet,
                   inflightAtCancel, deliveredAfterCancel>>

(***************************************************************************)
(* downloadSingleDate (lines 143-204).                                     *)
(***************************************************************************)
\* lastErr after a failed attempt (lines 170-196)
ErrOfAnswer(ans) ==
    CASE ans = "notfound" -> ErrCodeNotFound
      [] ans = "httperr" -> ErrCodeNetwork
      [] OTHER -> "transport"

\* the loop condition of line 147
LoopContinues(attempt, maxRetries) == attempt <= maxRetries

\* the result returned after the loop (lines 199-203)
FailedResult(w, maxRetries) ==
    ResponseResult(w, FALSE, NewOMIEError(ErrCodeDownload, maxRetries, w.lastErr))

\* one pass of the loop body from line 169 on, with the remote's answer
AfterAnswer(w, ans, maxRetries) ==
    LET h == [w EXCEPT !.made = w.made + 1, !.last = ans, !.lateRetry = FALSE,
                       !.all404 = w.all404 /\ ans = "notfound",
                       !.allTransient = w.allTransient /\ ans \in Transient]
    IN  IF ans = "ok"
        THEN [h EXCEPT !.pc = "send", !.res = ResponseResult(h, TRUE, NilErr)]
        ELSE LET f == [h EXCEPT !.lastErr = ErrOfAnswer(ans), !.attempt = w.attempt + 1]
             IN  IF LoopContinues(f.attempt, maxRetries)
                 THEN [f EXCEPT !.pc = "wait"]
                 ELSE [f EXCEPT !.pc = "send", !.res = FailedResult(f, maxRetries)]

\* a wait that does not grow with the attempt number
RetryWait_Constant(retryDelay, attempt) == retryDelay

\* the duration given to time.After before a retry (line 157)
RetryWait(retryDelay, attempt) == retryDelay * attempt

\* downloadSingleDate run from its first line to its return, with a ctx that
\* is never cancelled and a remote that gives `answers` in turn: the result,
\* and in order every attempt (with the loop variable) and every wait (with
\* its duration)
RECURSIVE downloadSingleDate(_, _, _, _)
downloadSingleDate(w, answers, cfg, events) ==
    CASE w.pc = "wait" ->
            downloadSingleDate([w EXCEPT !.pc = "request"], answers, cfg,
                Append(events, [kind |-> "wait", n |-> RetryWait(cfg.RetryDelay, w.attempt)]))
      [] w.pc = "request" ->
            downloadSingleDate(AfterAnswer(w, Head(answers), cfg.MaxRetries), Tail(answers),
                cfg, Append(events, [kind |-> "attempt", n |-> w.attempt]))
      [] OTHER -> [res |-> w.res, events |-> events]

Request(w, ans) ==
    /\ w.pc = "request"
    /\ ans \in AnswersUnder(ctxDone)
    /\ workers' = Replace(workers, w, AfterAnswer(w, ans, config.MaxRetries))
    /\ UNCHANGED parserVars
    /\ UNCHANGED <<config, runConfig, dateIni, dateEnd, ctxDone, nextDate, dateChanClosed,
                   resultChanClosed, delivered, results, errors, importPc, importRet,
                   inflightAtCancel, deliveredAfterCancel>>

\* case <-time.After(RetryDelay * attempt) of the select of lines 150-158.
\* When the timer has expired and ctx is done both cases are ready and Go
\* picks either of them.
WaitTimer(w) ==
    /\ w.pc = "wait"
    /\ workers' = Replace(workers, w, [w EXCEPT !.pc = "request", !.lateRetry = ctxDone])
    /\ UNCHANGED parserVars
    /\ UNCHANGED <<config, runConfig, dateIni, dateEnd, ctxDone, nextDate, dateChanClosed,
                   resultChanClosed, delivered, results, errors, importPc, importRet,
                   inflightAtCancel, deliveredAfterCancel>>

\* case <-ctx.Done() of the select of lines 150-158
WaitCancelled(w) ==
    /\ w.pc = "wait"
    /\ ctxDone
    /\ workers' = Replace(workers, w,
                     [w EXCEPT !.pc = "send", !.res = ResponseResult(w, FALSE, CtxErr)])
    /\ UNCHANGED parserVars
    /\ UNCHANGED <<config, runConfig, dateIni, dateEnd, ctxDone, nextDate, dateChanClosed,
                   resultChanClosed, delivered, results, errors, importPc, importRet,
                   inflightAtCancel, deliveredAfterCancel>>

(***************************************************************************)
(* Import (MarginalPriceImporter, EnergyByTechnologyImporter): the         *)
(* consumer of the result channel.                                         *)
(***************************************************************************)
ParseOutcomes == {"ok", "parseErr"}

\* the body of the loop over responseChan: the slice the result is appended to
ImportTarget(r, parse) ==
    IF r.err # NilErr THEN "errors"
    ELSE IF parse # "ok" THEN "errors"
    ELSE "results"

ImportError(r, parse) ==
    IF r.err # NilErr THEN r.err ELSE FmtErrorfWrap(ErrCodeParse)

\* resultChan <- result meets the consumer's receive: the worker goes back to
\* range dateChan and Import runs one pass of its loop body
ImportRecv(w, parse) ==
    /\ w.pc = "send"
    /\ importPc = "ranging"
    /\ ~resultChanClosed
    /\ parse \in (IF w.res.ok THEN ParseOutcomes ELSE {"none"})
    /\ workers' = Replace(workers, w, IdleW)
    /\ delivered' = Append(delivered, [r |-> w.res, parsed |-> parse, all404 |-> w.all404])
    /\ IF ImportTarget(w.res, parse) = "results"
       THEN /\ results' = Append(results, w.res.date)
            /\ errors' = errors
       ELSE /\ errors' = Append(errors, ImportError(w.res, parse))
            /\ results' = results
    /\ deliveredAfterCancel' = IF ctxDone THEN deliveredAfterCancel + 1
                               ELSE deliveredAfterCancel
    /\ UNCHANGED parserVars
    /\ UNCHANGED <<config, runConfig, dateIni, dateEnd, ctxDone, nextDate, dateChanClosed,
                   resultChanClosed, importPc, importRet, inflightAtCancel>>

\* a close(resultChan) that waits for the sender of the dates only
WaitGroupDone_SenderOnly == dateChanClosed

\* a wg.Wait() that returns when the first worker has called wg.Done()
WaitGroupDone_FirstExit == BagIn(ExitedW, workers)

\* wg.Wait() returns when every goroutine counted by wg.Add has called
\* wg.Done(); the deferred close(resultChan) (lines 101, 136)
WaitGroupDone == Count(workers, ExitedW) = BagCardinality(workers)

CloseResultChan ==
    /\ ~resultChanClosed
    /\ WaitGroupDone
    /\ resultChanClosed' = TRUE
    /\ UNCHANGED parserVars
    /\ UNCHANGED <<config, runConfig, dateIni, dateEnd, ctxDone, nextDate, dateChanClosed, workers,
                   delivered, results, errors, importPc, importRet,
                   inflightAtCancel, deliveredAfterCancel>>

\* an Import that fails as soon as one date failed
ImportResult_FailFast(res, errs) ==
    IF Len(errs) > 0
    THEN [val |-> <<>>, err |-> FmtErrorf(errs[1])]
    ELSE [val |-> res, err |-> NilErr]

\* what Import returns once the loop over responseChan has ended
ImportResult(res, errs) ==
    IF Len(res) = 0 /\ Len(errs) > 0
    THEN [val |-> <<>>, err |-> FmtErrorf(errs[1])]
    ELSE [val |-> res, err |-> NilErr]

ImportReturn ==
    /\ importPc = "ranging"
    /\ resultChanClosed
    /\ importRet' = ImportResult(results, errors)
    /\ importPc' = "returned"
    /\ UNCHANGED parserVars
    /\ UNCHANGED <<config, runConfig, dateIni, dateEnd, ctxDone, nextDate, dateChanClosed, workers,
                   resultChanClosed, delivered, results, errors,
                   inflightAtCancel, deliveredAfterCancel>>

\* what ImportSingleDate returns from Import's return value
ImportSingleDateResult(imported) ==
    IF imported.err # NilErr THEN [val |-> <<>>, err |-> imported.err]
    ELSE IF Len(imported.val) > 0 THEN [val |-> <<imported.val[1]>>, err |-> NilErr]
    ELSE [val |-> <<>>, err |-> NewOMIEError(ErrCodeNotFound, 0, "nil")]

(***************************************************************************)
(* The caller cancels ctx.                                                 *)
(***************************************************************************)
Cancel ==
    /\ ~ctxDone
    /\ importPc = "ranging"
    /\ ctxDone' = TRUE
    /\ inflightAtCancel' = InFlight
    /\ UNCHANGED parserVars
    /\ UNCHANGED <<config, runConfig, dateIni, dateEnd, nextDate, dateChanClosed, workers,
                   resultChanClosed, delivered, results, errors, importPc, importRet,
                   deliveredAfterCancel>>

\* the steps the Go scheduler runs: every goroutine that can run eventually does
Scheduled ==
    \/ SendDate
    \/ SenderCancelled
    \/ SenderDone
    \/ \E w \in BagToSet(workers) : WorkerCheck(w)
    \/ WorkerExit
    \/ \E w \in BagToSet(workers), ans \in Answers : Request(w, ans)
    \/ \E w \in BagToSet(workers) : WaitTimer(w)
    \/ \E w \in BagToSet(workers) : WaitCancelled(w)
    \/ \E w \in BagToSet(workers), parse \in ParseOutcomes \cup {"none"} : ImportRecv(w, parse)
    \/ CloseResultChan
    \/ ImportReturn

Next ==
    \/ Scheduled
    \/ Cancel

Spec == Init /\ [][Next]_vars

(***************************************************************************)
(* SetConfig (lines 47-50), called by the owner of the downloader while    *)
(* the goroutines of URLResponses run.  The assignment to d.config is not  *)
(* synchronized with the reads of d.config.MaxRetries in                   *)
(* downloadSingleDate: a read that follows it may see the new value.       *)
(***************************************************************************)
SetConfig(newConfig) ==
    /\ ~resultChanClosed
    /\ config' = newConfig
    /\ UNCHANGED parserVars
    /\ UNCHANGED <<runConfig, dateIni, dateEnd, ctxDone, nextDate, dateChanClosed, workers,
                   resultChanClosed, delivered, results, errors, importPc, importRet,
                   inflightAtCancel, deliveredAfterCancel>>

(***************************************************************************)
(* EnergyByTechnologyDownloader.URLResponses (energy_by_technology.go,     *)
(* lines 31-50): one goroutine loops over the dates, fetches each with its *)
(* own copy of downloadSingleDate (lines 53-103, the steps Request,        *)
(* WaitTimer and WaitCancelled) and sends the result.                      *)
(***************************************************************************)
\* a URLResponses that starts one looping goroutine per unit of MaxConcurrent
SequentialGoroutines_Pool(maxConcurrent) == maxConcurrent

\* the goroutines that URLResponses starts (line 35)
SequentialGoroutines(maxConcurrent) == 1

\* the goroutine at the head of its loop over the dates
LoopW == [IdleW EXCEPT !.pc = "loop"]

SequentialInit ==
    /\ config \in Configs
    /\ runConfig = config
    /\ dateIni = 1
    /\ dateEnd \in 1..MaxDates
    /\ ctxDone = FALSE
    /\ nextDate = dateIni
    /\ dateChanClosed = FALSE
    /\ workers = IF SequentialGoroutines(config.MaxConcurrent) = 0 THEN EmptyBag
                 ELSE [w \in {LoopW} |-> SequentialGoroutines(config.MaxConcurrent)]
    /\ resultChanClosed = FALSE
    /\ delivered = <<>>
    /\ results = <<>>
    /\ errors = <<>>
    /\ importPc = "ranging"
    /\ importRet = [val |-> <<>>, err |-> NilErr]
    /\ inflightAtCancel = 0
    /\ deliveredAfterCancel = 0
    /\ call = NoCall
    /\ ret = NoReturn

\* the loop condition holds and the select of lines 39-45 runs: on
\* ctx.Done() the goroutine returns and its deferred close(resultChan) runs,
\* otherwise it goes on to downloadSingleDate
SequentialCheck(w) ==
    /\ w.pc = "loop"
    /\ nextDate <= dateEnd
    /\ IF WorkerProceeds(ctxDone)
       THEN /\ workers' = Replace(workers, w, [IdleW EXCEPT !.pc = "request",
                                                            !.date = nextDate])
            /\ resultChanClosed' = resultChanClosed
       ELSE /\ workers' = Replace(workers, w, ExitedW)
            /\ resultChanClosed' = TRUE
    /\ UNCHANGED parserVars
    /\ UNCHANGED <<config, runConfig, dateIni, dateEnd, ctxDone, nextDate, dateChanClosed,
                   delivered, results, errors, importPc, importRet,
                   inflightAtCancel, deliveredAfterCancel>>

\* the loop ends (date is after dateEnd): the goroutine returns and its
\* deferred close(resultChan) runs
SequentialDone(w) ==
    /\ w.pc = "loop"
    /\ nextDate > dateEnd
    /\ workers' = Replace(workers, w, ExitedW)
    /\ resultChanClosed' = TRUE
    /\ UNCHANGED parserVars
    /\ UNCHANGED <<config, runConfig, dateIni, dateEnd, ctxDone, nextDate, dateChanClosed,
                   delivered, results, errors, importPc, importRet,
                   inflightAtCancel, deliveredAfterCancel>>

\* resultChan <- result (line 44) meets the consumer's receive: Import runs
\* one pass of its loop body and the goroutine steps to the next date
SequentialSend(w, parse) ==
    /\ w.pc = "send"
    /\ importPc = "ranging"
    /\ ~resultChanClosed
    /\ parse \in (IF w.res.ok THEN ParseOutcomes ELSE {"none"})
    /\ workers' = Replace(workers, w, LoopW)
    /\ nextDate' = AddDay(nextDate)
    /\ delivered' = Append(delivered, [r |-> w.res, parsed |-> parse, all404 |-> w.all404])
    /\ IF ImportTarget(w.res, parse) = "results"
       THEN /\ results' = Append(results, w.res.date)
            /\ errors' = errors
       ELSE /\ errors' = Append(errors, ImportError(w.res, parse))
            /\ results' = results
    /\ deliveredAfterCancel' = IF ctxDone THEN deliveredAfterCancel + 1
                               ELSE deliveredAfterCancel
    /\ UNCHANGED parserVars
    /\ UNCHANGED <<config, runConfig, dateIni, dateEnd, ctxDone, dateChanClosed,
                   resultChanClosed, importPc, importRet, inflightAtCancel>>

SequentialNext ==
    \/ \E w \in BagToSet(workers) : SequentialCheck(w)
    \/ \E w \in BagToSet(workers) : SequentialDone(w)
    \/ \E w \in BagToSet(workers), ans \in Answers : Request(w, ans)
    \/ \E w \in BagToSet(workers) : WaitTimer(w)
    \/ \E w \in BagToSet(workers) : WaitCancelled(w)
    \/ \E w \in BagToSet(workers), parse \in ParseOutcomes \cup {"none"} :
          SequentialSend(w, parse)
    \/ ImportReturn
    \/ Cancel

SequentialSpec == SequentialInit /\ [][SequentialNext]_vars

(***************************************************************************)
(* A consumer of URLResponses that cancels ctx and then leaves its loop    *)
(* over the result channel before the channel is closed.                   *)
(***************************************************************************)
ConsumerStops ==
    /\ ctxDone
    /\ importPc = "ranging"
    /\ ~resultChanClosed
    /\ importPc' = "stopped"
    /\ UNCHANGED parserVars
    /\ UNCHANGED <<config, runConfig, dateIni, dateEnd, ctxDone, nextDate, dateChanClosed,
                   workers, resultChanClosed, delivered, results, errors, importRet,
                   inflightAtCancel, deliveredAfterCancel>>

AbandonNext ==
    \/ Next
    \/ ConsumerStops

\* a run whose consumer may stop reading after it cancelled
AbandonSpec == Init /\ [][AbandonNext]_vars

ConfigNext ==
    \/ Next
    \/ \E newConfig \in Configs : SetConfig(newConfig)

\* a run during which the owner of the downloader may call SetConfig
ConfigSpec == Init /\ [][ConfigNext]_vars

\* the caller may never cancel; everything else is scheduled fairly
FairSpec == Spec /\ WF_vars(Scheduled)

(***************************************************************************)
(* Text.  A string is a sequence of characters; a character is a one-      *)
(* character string, and a row label or a column header of a document is   *)
(* written as one character that stands for its whole text.                *)
(***************************************************************************)
Digits == {"0", "1", "2", "3", "4", "5", "6", "7", "8", "9"}

\* strings.TrimSpace
RECURSIVE TrimLeft(_)
TrimLeft(s) == IF s # <<>> /\ Head(s) = " " THEN TrimLeft(Tail(s)) ELSE s

RECURSIVE TrimRight(_)
TrimRight(s) ==
    IF s # <<>> /\ s[Len(s)] = " " THEN TrimRight(SubSeq(s, 1, Len(s) - 1)) ELSE s

TrimSpace(s) == TrimRight(TrimLeft(s))

\* strings.LastIndex, counted from 1; 0 when c does not occur
LastIndex(s, c) ==
    LET I == {i \in 1..Len(s) : s[i] = c}
    IN  IF I = {} THEN 0 ELSE CHOOSE i \in I : \A j \in I : j <= i

\* strings.Index, counted from 1; 0 when c does not occur
Index(s, c) ==
    LET I == {i \in 1..Len(s) : s[i] = c}
    IN  IF I = {} THEN 0 ELSE CHOOSE i \in I : \A j \in I : i <= j

\* strings.Replace(s, c, "", -1)
RemoveAll(s, c) == SelectSeq(s, LAMBDA x : x # c)

\* strings.Split
RECURSIVE Split(_, _)
Split(s, sep) ==
    LET i == Index(s, sep)
    IN  IF i = 0 THEN <<s>>
        ELSE <<SubSeq(s, 1, i - 1)>> \o Split(SubSeq(s, i + 1, Len(s)), sep)

\* SplitCSV (utils.go)
SplitCSV(line) == Split(line, ";")

(***************************************************************************)
(* float64 values: NaN, or a decimal number kept as the digits of its      *)
(* integer part (no leading zero) and of its fraction (no trailing zero).  *)
(***************************************************************************)
RECURSIVE StripLeadingZeros(_)
StripLeadingZeros(ds) ==
    IF ds # <<>> /\ Head(ds) = "0" THEN StripLeadingZeros(Tail(ds)) ELSE ds

RECURSIVE StripTrailingZeros(_)
StripTrailingZeros(ds) ==
    IF ds # <<>> /\ ds[Len(ds)] = "0"
    THEN StripTrailingZeros(SubSeq(ds, 1, Len(ds) - 1)) ELSE ds

Number(int, frac) ==
    [kind |-> "num", int |-> StripLeadingZeros(int), frac |-> StripTrailingZeros(frac)]

NaN == [kind |-> "nan", int |-> <<>>, frac |-> <<>>]

Zero == Number(<<>>, <<>>)

\* value * multiplier, for the multipliers of the concept table
Times(v, multiplier) ==
    IF v.kind = "nan" \/ multiplier = 1 THEN v
    ELSE IF v.frac = <<>> THEN Number(v.int \o <<"0">>, <<>>)
    ELSE Number(v.int \o <<Head(v.frac)>>, Tail(v.frac))

\* strconv.ParseFloat on text made of digits, dots, commas and spaces: the
\* text must be digits with at most one dot and at least one digit
StrconvParseFloat(s) ==
    LET dot == Index(s, ".")
        int == IF dot = 0 THEN s ELSE SubSeq(s, 1, dot - 1)
        frac == IF dot = 0 THEN <<>> ELSE SubSeq(s, dot + 1, Len(s))
        valid == /\ \A i \in 1..Len(int) : int[i] \in Digits
                 /\ \A i \in 1..Len(frac) : frac[i] \in Digits
                 /\ Len(int) + Len(frac) >= 1
    IN  IF valid THEN [val |-> Number(int, frac), err |-> FALSE]
        ELSE [val |-> Zero, err |-> TRUE]

\* strconv.Atoi on the same texts, for texts of at most 3 digits
StrconvAtoi(s) ==
    IF s # <<>> /\ Len(s) <= 3 /\ \A i \in 1..Len(s) : s[i] \in Digits
    THEN LET d(c) == CHOOSE n \in 0..9 : ToString(n) = c
             RECURSIVE value(_)
             value(ds) == IF ds = <<>> THEN 0
                          ELSE 10 * value(SubSeq(ds, 1, Len(ds) - 1)) + d(ds[Len(ds)])
         IN  [val |-> value(s), err |-> FALSE]
    ELSE [val |-> 0, err |-> TRUE]

(***************************************************************************)
(* ParseFloat (utils.go, lines 123-149).                                   *)
(***************************************************************************)
\* a conversion that only replaces the comma and keeps the grouping dots
EuropeanToPlain_CommaOnly(s) ==
    [i \in 1..Len(s) |-> IF s[i] = "," THEN "." ELSE s[i]]

\* a conversion that deletes a single dot too when there is no comma
EuropeanToPlain_EveryDotGroups(s) ==
    LET lastCommaIndex == LastIndex(s, ",")
    IN  IF lastCommaIndex # 0
        THEN RemoveAll(SubSeq(s, 1, lastCommaIndex - 1), ".")
                \o <<".">> \o SubSeq(s, lastCommaIndex + 1, Len(s))
        ELSE RemoveAll(s, ".")

\* the text handed to strconv.ParseFloat (lines 128-146)
EuropeanToPlain(s) ==
    LET lastCommaIndex == LastIndex(s, ",")
    IN  IF lastCommaIndex # 0
        THEN RemoveAll(SubSeq(s, 1, lastCommaIndex - 1), ".")
                \o <<".">> \o SubSeq(s, lastCommaIndex + 1, Len(s))
        ELSE IF Len(Split(s, ".")) > 2 THEN RemoveAll(s, ".")
        ELSE s

ParseFloat(s) ==
    IF TrimSpace(s) = <<>> THEN [val |-> NaN, err |-> FALSE]
    ELSE StrconvParseFloat(EuropeanToPlain(TrimSpace(s)))

(***************************************************************************)
(* MarginalPriceParser: the labeled-row parser.                            *)
(***************************************************************************)
PriceSpain == "PRICE_SP"
PricePortugal == "PRICE_PT"
EnergyIberian == "ENER_IB"
EnergyIberianWithBilateral == "ENER_IB_BILLAT"
EnergyBuySpain == "ENER_BUY_SP"
EnergySellSpain == "ENER_SELL_SP"

\* NewMarginalPriceParser with no argument loads every concept
conceptsToLoad ==
    {PriceSpain, PricePortugal, EnergyIberian, EnergyIberianWithBilateral,
     EnergyBuySpain, EnergySellSpain}

\* the table of mapConcept: exact label -> <<concept, multiplier>>
conceptMap ==
    [l \in {"Precio marginal (Cent/kWh)",
            "Precio marginal en el sistema español (Cent/kWh)",
            "Precio marginal (EUR/MWh)",
            "Precio marginal en el sistema español (EUR/MWh)",
            "Precio de ajuste en el sistema español (EUR/MWh)"} |-> PriceSpain]
    @@ [l \in {"Precio marginal en el sistema portugués (Cent/kWh)",
               "Precio marginal en el sistema portugués (EUR/MWh)",
               "Precio de ajuste en el sistema portugués (EUR/MWh)"} |-> PricePortugal]
    @@ [l \in {"Demanda+bombeos (MWh)",
               "Energía en el programa resultante de la casación (MWh)",
               "Energía total del mercado Ibérico (MWh)",
               "Energía horaria sujeta al mecanismo de ajuste a los consumidores MIBEL (MWh)"}
            |-> EnergyIberian]
    @@ [l \in {"Energía total con bilaterales del mercado Ibérico (MWh)"}
            |-> EnergyIberianWithBilateral]
    @@ [l \in {"Energía total de compra sistema español (MWh)"} |-> EnergyBuySpain]
    @@ [l \in {"Energía total de venta sistema español (MWh)"} |-> EnergySellSpain]

\* the labels of the old format, in Cent/kWh
centLabels ==
    {"Precio marginal (Cent/kWh)",
     "Precio marginal en el sistema español (Cent/kWh)",
     "Precio marginal en el sistema portugués (Cent/kWh)"}

\* the multiplier of the old format's labels
CentMultiplier == 10

\* a table without the conversion of the old format
mapConcept_NoConversion(concept) ==
    IF Len(concept) = 1 /\ concept[1] \in DOMAIN conceptMap
    THEN [type |-> conceptMap[concept[1]], multiplier |-> 1]
    ELSE [type |-> "", multiplier |-> 0]

mapConcept(concept) ==
    IF Len(concept) = 1 /\ concept[1] \in DOMAIN conceptMap
    THEN [type |-> conceptMap[concept[1]],
          multiplier |-> IF concept[1] \in centLabels THEN CentMultiplier ELSE 1]
    ELSE [type |-> "", multiplier |-> 0]

\* at most 25 hours in a day
MaxHours == 25

NoRecord == [concept |-> "", values |-> <<>>]

\* a loop over fields[1:] without the limit of 25 hours
HourValues_NoLimit(valueFields, multiplier) ==
    LET H == {h \in 1..Len(valueFields) :
                /\ TrimSpace(valueFields[h]) # <<>>
                /\ ~ParseFloat(valueFields[h]).err}
    IN  [h \in H |-> Times(ParseFloat(valueFields[h]).val, multiplier)]

\* the loop over fields[1:] of parseDataLine (lines 145-163)
HourValues(valueFields, multiplier) ==
    LET last == IF Len(valueFields) < MaxHours THEN Len(valueFields) ELSE MaxHours
        H == {h \in 1..last :
                /\ TrimSpace(valueFields[h]) # <<>>
                /\ ~ParseFloat(valueFields[h]).err}
    IN  [h \in H |-> Times(ParseFloat(valueFields[h]).val, multiplier)]

\* MarginalPriceParser.parseDataLine (lines 117-170)
parseDataLine(line) ==
    LET fields == SplitCSV(line)
    IN  IF Len(fields) < 2 THEN [record |-> NoRecord, err |-> TRUE]
        ELSE LET m == mapConcept(TrimSpace(fields[1]))
             IN  IF m.type = "" \/ m.type \notin conceptsToLoad
                 THEN [record |-> NoRecord, err |-> FALSE]
                 ELSE [record |-> [concept |-> m.type,
                                   values |-> HourValues(Tail(fields), m.multiplier)],
                       err |-> FALSE]

(***************************************************************************)
(* MarginalPriceParser: the document (ParseReader, lines 57-100).          *)
(***************************************************************************)
\* the value of a text of decimal digits
RECURSIVE DecimalValue(_)
DecimalValue(ds) ==
    IF ds = <<>> THEN 0
    ELSE 10 * DecimalValue(SubSeq(ds, 1, Len(ds) - 1))
         + (CHOOSE n \in 0..9 : ToString(n) = ds[Len(ds)])

\* the text from position i on starts with \d{2}/\d{2}/\d{4}
DateAt(s, i) ==
    /\ i + 9 <= Len(s)
    /\ \A k \in {0, 1, 3, 4, 6, 7, 8, 9} : s[i + k] \in Digits
    /\ s[i + 2] = "/"
    /\ s[i + 5] = "/"

\* dateRegex.FindAllString(headerLine, -1): the matches from the left, none
\* overlapping the one before
RECURSIVE FindAllDatesFrom(_, _)
FindAllDatesFrom(s, i) ==
    IF i + 9 > Len(s) THEN <<>>
    ELSE IF DateAt(s, i) THEN <<SubSeq(s, i, i + 9)>> \o FindAllDatesFrom(s, i + 10)
    ELSE FindAllDatesFrom(s, i + 1)

FindAllDates(s) == FindAllDatesFrom(s, 1)

\* the days of a month of the calendar
DaysIn(month, year) ==
    IF month = 2
    THEN IF year % 4 = 0 /\ (year % 100 # 0 \/ year % 400 = 0) THEN 29 ELSE 28
    ELSE IF month \in {4, 6, 9, 11} THEN 30 ELSE 31

NoDate == [day |-> 0, month |-> 0, year |-> 0]

\* ParseDate (utils.go, lines 152-154): time.Parse with the layout 02/01/2006
ParseDate(text) ==
    LET t == TrimSpace(text)
    IN  IF Len(t) = 10 /\ DateAt(t, 1)
        THEN LET day == DecimalValue(SubSeq(t, 1, 2))
                 month == DecimalValue(SubSeq(t, 4, 5))
                 year == DecimalValue(SubSeq(t, 7, 10))
             IN  IF month \in 1..12 /\ day >= 1 /\ day <= DaysIn(month, year)
                 THEN [val |-> [day |-> day, month |-> month, year |-> year],
                       err |-> NilErr]
                 ELSE [val |-> NoDate, err |-> TimeParseError]
        ELSE [val |-> NoDate, err |-> TimeParseError]

\* a header whose first date is taken
parseDateFromHeader_FirstToken(headerLine) ==
    LET matches == FindAllDates(headerLine)
    IN  IF Len(matches) < 2
        THEN [val |-> NoDate, err |-> NewOMIEError(ErrCodeParse, 0, "nil")]
        ELSE ParseDate(matches[1])

\* parseDateFromHeader (lines 103-114)
parseDateFromHeader(headerLine) ==
    LET matches == FindAllDates(headerLine)
    IN  IF Len(matches) < 2
        THEN [val |-> NoDate, err |-> NewOMIEError(ErrCodeParse, 0, "nil")]
        ELSE ParseDate(matches[2])

\* NewMarginalPriceData: one empty map per series
NewMarginalPriceData == [c \in conceptsToLoad |-> <<>>]

\* a merge in which the values of earlier rows stay
addRecordToResult_FirstWins(result, record) ==
    IF record.concept \in DOMAIN result
    THEN [result EXCEPT ![record.concept] = result[record.concept] @@ record.values]
    ELSE result

\* addRecordToResult (lines 207-234): the record's values go into the map of
\* its concept, over the values of earlier rows
addRecordToResult(result, record) ==
    IF record.concept \in DOMAIN result
    THEN [result EXCEPT ![record.concept] = record.values @@ result[record.concept]]
    ELSE result

\* the loop of ParseReader over lines[1:] (lines 78-93): the number of
\* records and the result
RECURSIVE ReadRows(_, _)
ReadRows(lines, acc) ==
    IF lines = <<>> THEN acc
    ELSE LET line == Head(lines)
             row == parseDataLine(line)
         IN  IF TrimSpace(line) = <<>> \/ row.err \/ row.record = NoRecord
             THEN ReadRows(Tail(lines), acc)
             ELSE ReadRows(Tail(lines),
                           [records |-> acc.records + 1,
                            result |-> addRecordToResult(acc.result, row.record)])

NoData == [date |-> NoDate, data |-> <<>>]

\* MarginalPriceParser.ParseReader (lines 57-100)
ParseReader(lines) ==
    IF Len(lines) = 0
    THEN [val |-> NoData, err |-> NewOMIEError(ErrCodeParse, 0, "nil")]
    ELSE LET date == parseDateFromHeader(lines[1])
         IN  IF date.err # NilErr THEN [val |-> NoData, err |-> date.err]
             ELSE LET read == ReadRows(Tail(lines),
                                       [records |-> 0, result |-> NewMarginalPriceData])
                  IN  IF read.records = 0
                      THEN [val |-> NoData, err |-> NewOMIEError(ErrCodeParse, 0, "nil")]
                      ELSE [val |-> [date |-> date.val, data |-> read.result],
                            err |-> NilErr]

(***************************************************************************)
(* EnergyByTechnologyParser: the tabular parser.                           *)
(***************************************************************************)
Technologies ==
    {"COAL", "FUEL_GAS", "SELF_PRODUCER", "NUCLEAR", "HYDRO", "COMBINED_CYCLE", "WIND",
     "THERMAL_SOLAR", "PHOTOVOLTAIC_SOLAR", "RESIDUALS", "IMPORT", "IMPORT_WITHOUT_MIBEL"}

\* a ParseHour that accepts every integer
ParseHour_AnyInteger(s) ==
    LET a == StrconvAtoi(TrimSpace(s))
    IN  IF TrimSpace(s) = <<>> \/ a.err
        THEN [val |-> 0, err |-> TRUE]
        ELSE [val |-> a.val, err |-> FALSE]

\* ParseHour (utils.go, lines 202-218)
ParseHour(s) ==
    LET a == StrconvAtoi(TrimSpace(s))
    IN  IF TrimSpace(s) = <<>> \/ a.err \/ a.val < 1 \/ a.val > MaxHours
        THEN [val |-> 0, err |-> TRUE]
        ELSE [val |-> a.val, err |-> FALSE]

\* assignTechnologyValue: the field of the record that techType names
assignTechnologyValue(record, techType, value) ==
    IF techType \in Technologies
    THEN [record EXCEPT !.tech[techType] = value]
    ELSE record

\* the loop over columnMapping of parseDataLine (lines 507-519); order is the
\* order in which Go's range visits the keys of the map
RECURSIVE AssignColumns(_, _, _, _)
AssignColumns(record, fields, columnMapping, order) ==
    IF order = <<>> THEN record
    ELSE LET colIndex == Head(order)
             value == ParseFloat(fields[colIndex + 1])
             next == IF colIndex >= Len(fields) THEN record
                     ELSE IF value.err THEN record
                     ELSE assignTechnologyValue(record, columnMapping[colIndex], value.val)
         IN  AssignColumns(next, fields, columnMapping, Tail(order))

NoTechnologyRecord == [Hour |-> 0, tech |-> [x \in Technologies |-> Zero]]

\* EnergyByTechnologyParser.parseDataLine (lines 487-522): the fields of a
\* new record are float64 zero values
parseTechnologyDataLine(line, columnMapping, order) ==
    LET fields == SplitCSV(line)
    IN  IF Len(fields) < 3 THEN [record |-> NoTechnologyRecord, err |-> TRUE]
        ELSE LET hour == ParseHour(fields[2])
             IN  IF hour.err THEN [record |-> NoTechnologyRecord, err |-> TRUE]
                 ELSE [record |-> AssignColumns([NoTechnologyRecord EXCEPT !.Hour = hour.val],
                                                fields, columnMapping, order),
                       err |-> FALSE]

\* strings.ToUpper on the words of column headers: a word written in lower
\* case becomes the word in upper case, every other character stays
LowerToUpper ==
    ("carbón" :> "CARBÓN") @@ ("nuclear" :> "NUCLEAR") @@ ("eólica" :> "EÓLICA")
    @@ ("solar" :> "SOLAR") @@ ("fuel-gas" :> "FUEL-GAS")

ToUpper(s) ==
    [i \in 1..Len(s) |-> IF s[i] \in DOMAIN LowerToUpper THEN LowerToUpper[s[i]] ELSE s[i]]

\* strings.Contains
Contains(s, sub) ==
    \E i \in 1..(Len(s) - Len(sub) + 1) : SubSeq(s, i, i + Len(sub) - 1) = sub

\* the table of isKnownTechnology and of TechnologyTypeFromSpanish: the
\* column header of every technology
knownTechs ==
    (<<"CARBÓN">> :> "COAL")
    @@ (<<"FUEL-GAS">> :> "FUEL_GAS")
    @@ (<<"AUTOPRODUCTOR">> :> "SELF_PRODUCER")
    @@ (<<"NUCLEAR">> :> "NUCLEAR")
    @@ (<<"HIDRÁULICA">> :> "HYDRO")
    @@ (<<"CICLO COMBINADO">> :> "COMBINED_CYCLE")
    @@ (<<"EÓLICA">> :> "WIND")
    @@ (<<"SOLAR", " ", "TÉRMICA">> :> "THERMAL_SOLAR")
    @@ (<<"SOLAR", " ", "FOTOVOLTAICA">> :> "PHOTOVOLTAIC_SOLAR")
    @@ (<<"COGENERACIÓN/RESIDUOS/MINI HIDRA">> :> "RESIDUALS")
    @@ (<<"IMPORTACIÓN INTER.">> :> "IMPORT")
    @@ (<<"IMPORTACIÓN INTER.", " ", "SIN MIBEL">> :> "IMPORT_WITHOUT_MIBEL")

\* isKnownTechnology (lines 466-484): the field is a key of the table
isKnownTechnology(field) == field \in DOMAIN knownTechs

\* TechnologyTypeFromSpanish (enums.go), on the fields isKnownTechnology accepts
TechnologyTypeFromSpanish(spanish) == knownTechs[spanish]

\* the names that containsTechnologyNames looks for
headerTechs ==
    {<<"CARBÓN">>, <<"NUCLEAR">>, <<"EÓLICA">>, <<"SOLAR">>, <<"HIDRÁULICA">>}

\* containsTechnologyNames (lines 450-463)
containsTechnologyNames(fields) ==
    \E j \in 1..Len(fields), tech \in headerTechs :
        Contains(TrimSpace(ToUpper(fields[j])), tech)

\* parseColumnHeaders (lines 422-447): the mapping from the index of a
\* field (counted from 0) to its technology, and the index of the line
\* (counted from 0); no mapping and -1 when no line is a header line
parseColumnHeaders(lines) ==
    LET found == {i \in 1..Len(lines) :
                     /\ Len(SplitCSV(lines[i])) >= 3
                     /\ containsTechnologyNames(SplitCSV(lines[i]))}
    IN  IF found = {} THEN [mapping |-> <<>>, headerLineIndex |-> -1]
        ELSE LET i == CHOOSE k \in found : \A m \in found : k <= m
                 fields == SplitCSV(lines[i])
                 known == {j \in 0..(Len(fields) - 1) :
                              isKnownTechnology(TrimSpace(fields[j + 1]))}
             IN  [mapping |-> [j \in known |->
                                 TechnologyTypeFromSpanish(TrimSpace(fields[j + 1]))],
                  headerLineIndex |-> i - 1]

\* parseHeader (lines 395-419): the date is the last DD/MM/YYYY of the line
parseHeader(headerLine) ==
    LET dateMatches == FindAllDates(headerLine)
    IN  IF Len(dateMatches) = 0
        THEN [val |-> NoDate, err |-> NewOMIEError(ErrCodeParse, 0, "nil")]
        ELSE ParseDate(dateMatches[Len(dateMatches)])

\* the loop of ParseReader over the lines after the header line (lines
\* 368-382); i is the index of the line counted from 0 and orders[i] the order
\* in which Go's range visits columnMapping for that line
RECURSIVE ReadTechnologyRows(_, _, _, _, _)
ReadTechnologyRows(lines, i, columnMapping, orders, records) ==
    IF i >= Len(lines) THEN records
    ELSE LET line == TrimSpace(lines[i + 1])
             row == parseTechnologyDataLine(line, columnMapping, orders[i])
         IN  IF line = <<>> \/ row.err
             THEN ReadTechnologyRows(lines, i + 1, columnMapping, orders, records)
             ELSE ReadTechnologyRows(lines, i + 1, columnMapping, orders,
                                     Append(records, row.record))

NoTechnologyDay == [date |-> NoDate, records |-> <<>>]

\* EnergyByTechnologyParser.ParseReader (lines 345-392)
TechnologyParseReader(lines, orders) ==
    IF Len(lines) < 3
    THEN [val |-> NoTechnologyDay, err |-> NewOMIEError(ErrCodeParse, 0, "nil")]
    ELSE LET header == parseHeader(lines[1])
             schema == parseColumnHeaders(lines)
         IN  IF header.err # NilErr THEN [val |-> NoTechnologyDay, err |-> header.err]
             ELSE IF DOMAIN schema.mapping = {}
             THEN [val |-> NoTechnologyDay, err |-> NewOMIEError(ErrCodeParse, 0, "nil")]
             ELSE LET records == ReadTechnologyRows(lines, schema.headerLineIndex + 1,
                                                    schema.mapping, orders, <<>>)
                  IN  IF Len(records) = 0
                      THEN [val |-> NoTechnologyDay,
                            err |-> NewOMIEError(ErrCodeParse, 0, "nil")]
                      ELSE [val |-> [date |-> header.val, records |-> records],
                            err |-> NilErr]

\* the orders in which the keys of a map can be visited
Orders(S) == {o \in [1..Cardinality(S) -> S] : \A i, j \in DOMAIN o : i # j => o[i] # o[j]}

(***************************************************************************)
(* The parsing functions under call: ParseInit draws a function and its    *)
(* arguments, and one action per function applies it.                      *)
(***************************************************************************)
\* longest text enumerated in full
MaxTextLen == 4
\* most thousands groups, and most decimals, of an enumerated grouped number
MaxGroups == 1
MaxDecimals == 1
\* most value fields of an enumerated row
MaxValueFields == 2
\* most pieces of an enumerated header line, most rows of an enumerated document
MaxHeaderParts == 2
MaxRows == 2
\* largest MaxRetries, and largest RetryDelay (in units of time), of an
\* enumerated run of downloadSingleDate
MaxRunRetries == 3
MaxRetryDelay == 2

SampleDigits == {"0", "7"}
SampleChars == SampleDigits \cup {".", ",", " "}

StringsOver(chars, lo, hi) == UNION {[1..n -> chars] : n \in lo..hi}

RECURSIVE Flatten(_)
Flatten(ss) == IF ss = <<>> THEN <<>> ELSE Head(ss) \o Flatten(Tail(ss))

\* texts of the form D{1,3}(.DDD)*,D+
GroupedTexts ==
    UNION {{lead \o Flatten([i \in 1..g |-> <<".">> \o groups[i]]) \o <<",">> \o decimals :
                lead \in StringsOver(SampleDigits, 1, 3),
                groups \in [1..g -> StringsOver(SampleDigits, 3, 3)],
                decimals \in StringsOver(SampleDigits, 1, MaxDecimals)} :
           g \in 0..MaxGroups}

\* the numbers of the tests and of the data files, and one with two groups
ExampleTexts ==
    {<<"1", "5", ".", "9", "3", "4", ".", "0", "0", "0", ",", "2", "5">>} \cup
    {<<"1", ".", "4", "3", "2", ",", "0">>,
     <<"2", "4", "3", "2", "6", ",", "2">>,
     <<"7", ".", "0", "8", "7", ",", "2">>,
     <<"6", ",", "6", "9", "4">>,
     <<"2", "6", ".", "3", "7", "7">>,
     <<"3", ".", "1", "4">>,
     <<"1", "5", ".", "9", "3", "4", ".", "0", "0", "0">>}

Texts == StringsOver(SampleChars, 0, MaxTextLen) \cup GroupedTexts \cup ExampleTexts

\* the fields of the enumerated rows: empty, blank, numbers, not a number
FieldSamples ==
    {<<>>, <<" ">>,
     <<"6", ",", "6", "9", "4">>,
     <<"7", ".", "3", "7", "1", ",", "1">>,
     <<"1", ",", "2", ",", "3">>}

Join(fields) == Flatten([i \in 1..Len(fields) |->
                            IF i = 1 THEN fields[i] ELSE <<";">> \o fields[i]])

LabelSamples ==
    {<<"Precio marginal (Cent/kWh)">>,
     <<" ", "Precio marginal en el sistema español (EUR/MWh)", " ">>,
     <<"Demanda+bombeos (MWh)">>,
     <<"Moneda">>}

\* rows of a day with 23, 24 or 25 hours, and rows with fields after the
\* 25th hour; the third hour is blank
LongRows ==
    {Join(<<<<"Precio marginal (EUR/MWh)">>>> \o
          [h \in 1..n |-> IF h = 3 THEN <<>>
                          ELSE IF h = n THEN <<"7">>
                          ELSE <<"0", ",", "7">>]) :
        n \in (MaxHours - 2)..(MaxHours + 2)}

\* the row of the 2006 test file
ExampleRows ==
    {<<"Precio marginal (Cent/kWh)", ";", "6", ",", "6", "9", "4", ";",
       "4", ",", "8", "8", "8">>}

\* rows of a marginal price file: a label and value fields
LabeledLines ==
    {Join(<<label>> \o values) :
        label \in LabelSamples,
        values \in StringsOver(FieldSamples, 0, MaxValueFields)}
    \cup LongRows \cup ExampleRows

HourSamples == {<<"1">>, <<" ", "2", "5">>, <<"2", "6">>, <<>>}

\* rows of an energy by technology file: date, hour and value fields
TabularLines ==
    {Join(<<<<"13/11/2020">>, hour>> \o values) :
        hour \in HourSamples,
        values \in StringsOver(FieldSamples, 0, MaxValueFields)}

\* column mappings over the value columns (columns are counted from 0),
\* two columns of one technology included
ColumnMappings ==
    UNION {[cols -> {"COAL", "NUCLEAR"}] :
              cols \in (SUBSET (2..(MaxValueFields + 1))) \ {{}}}

\* pieces of header lines: dates, a date that is no calendar date, the end of
\* a date, a date with one-digit day and month, other text
HeaderPieces ==
    {<<"0", "1", "/", "0", "1", "/", "2", "0", "0", "6">>,
     <<"1", "3", "/", "1", "1", "/", "2", "0", "2", "0">>,
     <<"3", "1", "/", "0", "2", "/", "2", "0", "2", "0">>,
     <<"/", "0", "1", "/", "2", "0", "0", "6">>,
     <<"1", "/", "1", "/", "2", "0", "0", "6">>,
     <<";">>,
     <<" ", "-", " ", "0", "8", ":", "3", "0", ";", ";">>}

\* the header line of the test of parseDateFromHeader
ExampleHeader ==
    <<"OMIE - Mercado de electricidad", ";", "Fecha Emisión :">>
    \o <<"0", "1", "/", "0", "1", "/", "2", "0", "0", "6">>
    \o <<" ", "-", " ", "0", "8", ":", "3", "0", ";", ";">>
    \o <<"0", "1", "/", "0", "1", "/", "2", "0", "0", "6">>
    \o <<";", "Precio del mercado diario (Cent/kWh)", ";", ";", ";", ";">>

HeaderLines ==
    {Flatten(parts) : parts \in StringsOver(HeaderPieces, 0, MaxHeaderParts)}
    \cup {ExampleHeader}

\* rows of a document: two rows of one series, a row of another series, a
\* row with an unknown label, a row of one field, a recognized row whose
\* values all fail to parse, a blank line
RowSamples ==
    {<<"Precio marginal (Cent/kWh)", ";", "6", ",", "6", "9", "4", ";",
       "4", ",", "8", "8", "8">>,
     <<"Precio marginal en el sistema español (EUR/MWh)", ";", ";", "7">>,
     <<"Demanda+bombeos (MWh)", ";", "2", "6", ".", "3", "7", "7">>,
     <<"Moneda", ";", "7">>,
     <<"Precio marginal (EUR/MWh)">>,
     <<"Precio marginal (EUR/MWh)", ";", "1", ",", "2", ",", "3", ";", ".">>,
     <<" ">>}

\* header lines with two dates, with one date, with a second date that is no
\* calendar date, and the header of the test
KeyHeaders ==
    {ExampleHeader,
     <<"0", "1", "/", "0", "1", "/", "2", "0", "0", "6", ";",
       "1", "3", "/", "1", "1", "/", "2", "0", "2", "0">>,
     <<"1", "3", "/", "1", "1", "/", "2", "0", "2", "0", ";">>,
     <<"0", "1", "/", "0", "1", "/", "2", "0", "0", "6", ";",
       "3", "1", "/", "0", "2", "/", "2", "0", "2", "0">>}

\* the empty document, every header line over at most one row, and the key
\* header lines over every sequence of rows
Documents ==
    {<<>>}
    \cup {<<header>> \o rows :
            header \in HeaderLines, rows \in StringsOver(RowSamples, 0, 1)}
    \cup {<<header>> \o rows :
            header \in KeyHeaders, rows \in StringsOver(RowSamples, 0, MaxRows)}

\* the first data row of the test file, under schemas that map column 8
ExampleTabularLine ==
    <<"13/11/2020", ";", "1", ";", "1", ".", "4", "3", "2", ",", "0", ";", ";", ";",
      "6", ".", "0", "8", "8", ",", "9", ";", "2", ".", "4", "0", "5", ",", "9", ";",
      "3", ".", "1", "9", "1", ",", "6", ";", "7", ".", "3", "7", "1", ",", "1", ";",
      "2", "5", ",", "7", ";", "3", ",", "7", ";", "6", ".", "2", "9", "2", ",", "4", ";",
      ";", "2", ".", "4", "0", "0", ",", "0", ";">>

ExampleColumnMappings ==
    {(8 :> "WIND"), (2 :> "COAL" @@ 8 :> "WIND"), (3 :> "FUEL_GAS" @@ 8 :> "WIND")}

\* first lines of an energy by technology file: with a date, without one
TechnologyHeaders ==
    {<<"OMIE - Mercado de electricidad", ";", "Fecha Emisión :">>
        \o <<"1", "3", "/", "1", "1", "/", "2", "0", "2", "0">>
        \o <<" ", "-", " ", "1", "3", ":", "0", "0", ";", ";">>
        \o <<"1", "3", "/", "1", "1", "/", "2", "0", "2", "0">>
        \o <<";", "Energía horaria por tecnologías", ";", ";">>,
     <<"OMIE - Mercado de electricidad", ";", ";">>}

\* fields of a line of column headers: headers of the table, a header in
\* lower case, headers with text around the name, and text that names no
\* technology
ColumnNameSamples ==
    {<<"CARBÓN">>,
     <<"carbón">>,
     <<" ", "NUCLEAR", " ">>,
     <<"FUEL-GAS">>,
     <<"EÓLICA", " ", "(MWh)">>,
     <<"SOLAR", " ", "TÉRMICA">>,
     <<"Otros">>,
     <<>>}

\* the line of column headers of the test of parseColumnHeaders
ExampleColumnHeaders ==
    <<"Fecha", ";", "Hora", ";", "CARBÓN", ";", "FUEL-GAS", ";", "AUTOPRODUCTOR", ";",
      "NUCLEAR", ";", "HIDRÁULICA", ";", "CICLO COMBINADO", ";", "EÓLICA", ";",
      "SOLAR", " ", "TÉRMICA", ";", "SOLAR", " ", "FOTOVOLTAICA", ";",
      "COGENERACIÓN/RESIDUOS/MINI HIDRA", ";", "IMPORTACIÓN INTER.", ";",
      "IMPORTACIÓN INTER.", " ", "SIN MIBEL", ";">>

ColumnHeaderLines ==
    {Join(<<<<"Fecha">>, <<"Hora">>>> \o names) :
        names \in StringsOver(ColumnNameSamples, 0, MaxValueFields)}

\* lines of column headers with two technologies, with one, and with the
\* same technology twice
KeyColumnHeaders ==
    {<<"Fecha", ";", "Hora", ";", "CARBÓN", ";", "NUCLEAR">>,
     <<"Fecha", ";", "Hora", ";", ";", "EÓLICA">>,
     <<"Fecha", ";", "Hora", ";", "CARBÓN", ";", "CARBÓN">>}

\* rows of an energy by technology file: hours 1, 2, 3 and 25 with values,
\* blank values and a value that is no number, hour 26, an hour that is no
\* number, a row of two fields, a blank line
TechnologyRowSamples ==
    {<<"13/11/2020", ";", "1", ";", "6", ",", "6", "9", "4", ";",
       "7", ".", "3", "7", "1", ",", "1">>,
     <<"13/11/2020", ";", "2", ";", ";", "7">>,
     <<"13/11/2020", ";", " ", "2", "5", ";", "1", ",", "2", ",", "3", ";">>,
     <<"13/11/2020", ";", "3", ";", "0", ",", "7">>,
     <<"13/11/2020", ";", "2", "6", ";", "7", ";", "7">>,
     <<"13/11/2020", ";", "Total", ";", "7", ";", "7">>,
     <<"13/11/2020", ";", "1">>,
     <<" ">>}

\* three rows in the order of the file, and rows around a row that is skipped
KeyTechnologyRows ==
    {<<>>,
     <<<<"13/11/2020", ";", "1", ";", "6", ",", "6", "9", "4", ";",
         "7", ".", "3", "7", "1", ",", "1">>>>,
     <<<<"13/11/2020", ";", "2", ";", ";", "7">>,
       <<"13/11/2020", ";", "2", "6", ";", "7", ";", "7">>,
       <<"13/11/2020", ";", "1", ";", "6", ",", "6", "9", "4", ";",
         "7", ".", "3", "7", "1", ",", "1">>>>}

\* files of fewer than 3 lines, every line of column headers over the key
\* rows, the key lines of column headers over every sequence of rows
TechnologyDocuments ==
    {<<>>} \cup {<<header>> : header \in TechnologyHeaders}
    \cup {<<header, <<>>, columns>> \o rows :
            header \in TechnologyHeaders,
            columns \in ColumnHeaderLines,
            rows \in KeyTechnologyRows}
    \cup {<<header, <<>>, columns>> \o rows :
            header \in TechnologyHeaders,
            columns \in KeyColumnHeaders,
            rows \in StringsOver(TechnologyRowSamples, 0, MaxRows)}

\* runs of downloadSingleDate: a configuration and the remote's answers to
\* as many attempts as the loop can make
Runs ==
    UNION {[config : [MaxRetries : {r}, RetryDelay : 0..MaxRetryDelay],
            answers : [1..(r + 1) -> Answers]] : r \in 0..MaxRunRetries}

Calls ==
    {[fn |-> "parseTechnologyDataLine", line |-> ExampleTabularLine, columnMapping |-> m] :
        m \in ExampleColumnMappings}
    \cup
    {[fn |-> "downloadSingleDate", config |-> run.config, answers |-> run.answers] :
        run \in Runs}
    \cup
    {[fn |-> "ParseFloat", s |-> s] : s \in Texts}
    \cup {[fn |-> "ParseReader", lines |-> d] : d \in Documents}
    \cup {[fn |-> "TechnologyParseReader", lines |-> d] : d \in TechnologyDocuments}
    \cup {[fn |-> "parseColumnHeaders", lines |-> <<<<>>, <<>>, ExampleColumnHeaders>>]}
    \cup {[fn |-> "parseDataLine", line |-> l] : l \in LabeledLines}
    \cup {[fn |-> "parseTechnologyDataLine", line |-> l, columnMapping |-> m] :
            l \in TabularLines, m \in ColumnMappings}

\* no download is running
DownloaderIdle ==
    /\ config = [MaxRetries |-> 0, MaxConcurrent |-> 0]
    /\ runConfig = config
    /\ dateIni = 1
    /\ dateEnd = 1
    /\ ctxDone = FALSE
    /\ nextDate = 1
    /\ dateChanClosed = FALSE
    /\ workers = EmptyBag
    /\ resultChanClosed = FALSE
    /\ delivered = <<>>
    /\ results = <<>>
    /\ errors = <<>>
    /\ importPc = "ranging"
    /\ importRet = [val |-> <<>>, err |-> NilErr]
    /\ inflightAtCancel = 0
    /\ deliveredAfterCancel = 0

ParseInit ==
    /\ DownloaderIdle
    /\ call \in Calls
    /\ ret = NoReturn

CallParseFloat ==
    /\ call.fn = "ParseFloat"
    /\ ~ret.done
    /\ ret' = [done |-> TRUE, val |-> ParseFloat(call.s)]
    /\ UNCHANGED <<call, downloaderVars>>

CallParseDataLine ==
    /\ call.fn = "parseDataLine"
    /\ ~ret.done
    /\ ret' = [done |-> TRUE, val |-> parseDataLine(call.line)]
    /\ UNCHANGED <<call, downloaderVars>>

\* one pass of the loop of EnergyByTechnologyParser.ParseReader over a line
\* that is not blank (lines 371-381)
CallParseTechnologyDataLine ==
    /\ call.fn = "parseTechnologyDataLine"
    /\ ~ret.done
    /\ TrimSpace(call.line) # <<>>
    /\ \E order \in Orders(DOMAIN call.columnMapping) :
          ret' = [done |-> TRUE,
                  val |-> parseTechnologyDataLine(TrimSpace(call.line),
                                                  call.columnMapping, order)]
    /\ UNCHANGED <<call, downloaderVars>>

\* ParseReader over the lines that ReadLines returned
CallParseReader ==
    /\ call.fn = "ParseReader"
    /\ ~ret.done
    /\ ret' = [done |-> TRUE, val |-> ParseReader(call.lines)]
    /\ UNCHANGED <<call, downloaderVars>>

\* downloadSingleDate for the date a worker received
CallDownloadSingleDate ==
    /\ call.fn = "downloadSingleDate"
    /\ ~ret.done
    /\ ret' = [done |-> TRUE,
               val |-> downloadSingleDate([IdleW EXCEPT !.pc = "request", !.date = 1],
                                          call.answers, call.config, <<>>)]
    /\ UNCHANGED <<call, downloaderVars>>

\* EnergyByTechnologyParser.ParseReader over the lines that ReadLines
\* returned; Go's range visits the column mapping in any order, for every row
CallTechnologyParseReader ==
    /\ call.fn = "TechnologyParseReader"
    /\ ~ret.done
    /\ LET schema == parseColumnHeaders(call.lines)
       IN  \E orders \in [(schema.headerLineIndex + 1)..(Len(call.lines) - 1) ->
                              Orders(DOMAIN schema.mapping)] :
              ret' = [done |-> TRUE, val |-> TechnologyParseReader(call.lines, orders)]
    /\ UNCHANGED <<call, downloaderVars>>

\* parseColumnHeaders as its test calls it
CallParseColumnHeaders ==
    /\ call.fn = "parseColumnHeaders"
    /\ ~ret.done
    /\ ret' = [done |-> TRUE, val |-> parseColumnHeaders(call.lines)]
    /\ UNCHANGED <<call, downloaderVars>>

ParseNext ==
    \/ CallDownloadSingleDate
    \/ CallTechnologyParseReader
    \/ CallParseColumnHeaders
    \/ CallParseReader
    \/ CallParseFloat
    \/ CallParseDataLine
    \/ CallParseTechnologyDataLine

ParseSpec == ParseInit /\ [][ParseNext]_vars

(***************************************************************************)
(* Properties of the worker pool and of Import.                            *)
(***************************************************************************)
NumDates == dateEnd - dateIni + 1

DeliveredOf(d) == {i \in 1..Len(delivered) : delivered[i].r.date = d}

\* C1: with no cancellation and a consumer that reads until the stream ends,
\* the stream carries exactly dateEnd - dateIni + 1 outcomes, one for each
\* date of the range and no date twice, and is then closed, for every pool
\* size of at least 1 and every pattern of answers: until the stream is
\* closed some goroutine can always take a step (nothing is stuck), and once
\* it is closed every date of the range has exactly one outcome.
C1_OneOutcomePerDate ==
    (~ctxDone /\ config.MaxConcurrent >= 1)
    => IF resultChanClosed
       THEN /\ Len(delivered) = NumDates
            /\ \A d \in dateIni..dateEnd : Cardinality(DeliveredOf(d)) = 1
            /\ \A i \in 1..Len(delivered) : delivered[i].r.date \in dateIni..dateEnd
       ELSE /\ ENABLED Scheduled
            /\ \A d \in dateIni..dateEnd : Cardinality(DeliveredOf(d)) <= 1

C1_Witness ==
    /\ resultChanClosed /\ ~ctxDone
    /\ config.MaxConcurrent = 1
    /\ Len(delivered) = 2
    /\ \E i, j \in 1..2 : delivered[i].r.ok /\ ~delivered[j].r.ok

\* C2: a date whose every fetch attempt is answered not-found makes exactly
\* one attempt, and its outcome is a Failure tagged NotFound with attempt
\* count 1, whatever MaxRetries is (stated where retries are configured).
C2_NotFoundSurfacedAtOnce ==
    \A w \in BagToSet(workers) :
        (w.pc = "send" /\ w.all404 /\ ~ctxDone /\ config.MaxRetries >= 1)
        => /\ w.made = 1
           /\ ~w.res.ok
           /\ w.res.err.code = ErrCodeNotFound
           /\ w.res.err.attempts = 1

\* C3: downloadSingleDate makes at most config.MaxRetries fetch attempts for
\* a date (stated where the budget is at least 1).
C3_AtMostMaxRetriesAttempts ==
    \A w \in BagToSet(workers) :
        config.MaxRetries >= 1 => w.made <= config.MaxRetries

\* C4: the outcomes delivered after the cancellation are at most the dates
\* that were in flight (taken from the backlog, not yet delivered) at the
\* moment of the cancellation.
C4_CancelStopsDispatch == deliveredAfterCancel <= inflightAtCancel

C4_Witness ==
    /\ ctxDone /\ resultChanClosed
    /\ deliveredAfterCancel = 1
    /\ Len(delivered) < NumDates

\* C5: an outcome that a worker has finished producing, before or after a
\* cancellation, is eventually delivered to a consumer that keeps reading.
C5_ProducedIsDelivered ==
    \A d \in 1..MaxDates :
        (\E w \in BagToSet(workers) : w.pc = "send" /\ w.date = d)
            ~> (DeliveredOf(d) # {})

C5_Witness ==
    /\ ctxDone
    /\ deliveredAfterCancel >= 1
    /\ \E i \in 1..Len(delivered) : delivered[i].r.err = CtxErr

\* C6: when every fetch attempt for a date fails with a transient error, the
\* date's outcome is a Failure that wraps the error of the last attempt and
\* reports as attempt count the number of attempts made (stated where
\* retries are configured).
C6_FailureReportsAttemptsMade ==
    \A w \in BagToSet(workers) :
        (w.pc = "send" /\ w.allTransient /\ ~ctxDone /\ config.MaxRetries >= 1)
        => /\ ~w.res.ok
           /\ w.res.err.inner = ErrOfAnswer(w.last)
           /\ w.res.err.attempts = w.made

\* C7: when the remote answers 404 on every attempt for the date,
\* ImportSingleDate returns an error of dynamic type *types.OMIEError whose
\* Code is ErrCodeNotFound.
C7_SingleDateNotFoundIsOMIEError ==
    (importPc = "returned" /\ dateIni = dateEnd /\ ~ctxDone
        /\ Len(delivered) = 1 /\ delivered[1].all404)
    => /\ ImportSingleDateResult(importRet).err.type = "OMIEError"
       /\ ImportSingleDateResult(importRet).err.code = ErrCodeNotFound

\* C8: Import isolates per-date failures: a fetch failure or a parse failure
\* of one date does not stop the other dates (every date of the range ends
\* in results or in errors), and the returned list holds the parsed day of
\* every date whose fetch and parse both succeeded.
C8_ImportIsolatesFailures ==
    importPc = "returned"
    => /\ \A i \in 1..Len(delivered) :
            (delivered[i].r.ok /\ delivered[i].parsed = "ok")
            => /\ importRet.err = NilErr
               /\ \E j \in 1..Len(importRet.val) : importRet.val[j] = delivered[i].r.date
       /\ (~ctxDone /\ config.MaxConcurrent >= 1)
            => Len(results) + Len(errors) = NumDates

C8_Witness ==
    /\ importPc = "returned" /\ ~ctxDone
    /\ Len(importRet.val) = 1
    /\ Len(errors) = 1
    /\ delivered[1].r.err # NilErr

(***************************************************************************)
(* Properties of the parsing functions.                                    *)
(***************************************************************************)
AllDigits(t) == \A i \in 1..Len(t) : t[i] \in Digits

\* s has the form D{1,3}(.DDD)*,D+
MatchesGrouped(s) ==
    /\ Cardinality({i \in 1..Len(s) : s[i] = ","}) = 1
    /\ LET comma == Index(s, ",")
           groups == Split(SubSeq(s, 1, comma - 1), ".")
           decimals == SubSeq(s, comma + 1, Len(s))
       IN  /\ Len(decimals) >= 1 /\ AllDigits(decimals)
           /\ Len(groups[1]) \in 1..3 /\ AllDigits(groups[1])
           /\ \A g \in 2..Len(groups) : Len(groups[g]) = 3 /\ AllDigits(groups[g])

\* the number that the digits before the comma (dots deleted) and the digits
\* after it denote
GroupedValue(s) ==
    LET comma == Index(s, ",")
    IN  Number(SelectSeq(SubSeq(s, 1, comma - 1), LAMBDA c : c \in Digits),
               SubSeq(s, comma + 1, Len(s)))

\* C9: for every text of the form D{1,3}(.DDD)*,D+ ParseFloat returns,
\* without error, the number obtained by deleting every dot before the comma
\* and reading the comma as the decimal point.
C9_GroupedNumberParsed ==
    (call.fn = "ParseFloat" /\ ret.done /\ MatchesGrouped(call.s))
    => /\ ~ret.val.err
       /\ ret.val.val = GroupedValue(call.s)

C9_Witness ==
    /\ call.fn = "ParseFloat" /\ ret.done
    /\ call.s = <<"1", ".", "4", "3", "2", ",", "0">>
    /\ ret.val = [val |-> [kind |-> "num", int |-> <<"1", "4", "3", "2">>, frac |-> <<>>],
                  err |-> FALSE]

\* the fields of the row under call
CallFields == SplitCSV(TrimSpace(call.line))

\* C10: a blank or whitespace-only value is treated as missing, never as an
\* error and never as zero: ParseFloat returns NaN with a nil error, the
\* labeled-row parser emits no record for the hour of a blank value, and the
\* tabular parser reports the category mapped to the column of a blank value
\* as missing (NaN).
C10_BlankIsMissing ==
    /\ (call.fn = "ParseFloat" /\ ret.done /\ TrimSpace(call.s) = <<>>)
       => ret.val = [val |-> NaN, err |-> FALSE]
    /\ (call.fn = "parseDataLine" /\ ret.done /\ ret.val.record # NoRecord)
       => \A h \in 1..(Len(SplitCSV(call.line)) - 1) :
             TrimSpace(SplitCSV(call.line)[h + 1]) = <<>>
             => h \notin DOMAIN ret.val.record.values
    /\ (call.fn = "parseTechnologyDataLine" /\ ret.done /\ ~ret.val.err)
       => \A c \in DOMAIN call.columnMapping :
             (c < Len(CallFields) /\ TrimSpace(CallFields[c + 1]) = <<>>)
             => ret.val.record.tech[call.columnMapping[c]] = NaN

\* the first n fields of a row, as a row
FirstFields(line, n) ==
    LET fields == SplitCSV(line)
    IN  Join(SubSeq(fields, 1, IF n < Len(fields) THEN n ELSE Len(fields)))

\* C11: a recognized row of the labeled-row parser yields at most one value
\* per hour position and at most min(number of value fields, 25) values;
\* every hour index lies in 1..25 and in the positions of the row, and the
\* fields after the 25th value are ignored (the record is the one of the row
\* cut after its 25th value).
C11_AtMostOneValuePerHour ==
    (call.fn = "parseDataLine" /\ ret.done /\ ret.val.record # NoRecord)
    => LET n == Len(SplitCSV(call.line)) - 1
           most == IF n < 25 THEN n ELSE 25
           hours == DOMAIN ret.val.record.values
       IN  /\ hours \subseteq 1..most
           /\ Cardinality(hours) <= most
           /\ ret.val = parseDataLine(FirstFields(call.line, 26))

C11_Witness ==
    /\ call.fn = "parseDataLine" /\ ret.done
    /\ Len(SplitCSV(call.line)) = 28
    /\ ret.val.record # NoRecord
    /\ DOMAIN ret.val.record.values = (1..25) \ {3}

\* a sequence without its i-th element
RemoveAt(seq, i) == SubSeq(seq, 1, i - 1) \o SubSeq(seq, i + 1, Len(seq))

\* the row has fewer than 2 fields
TooFewFields(line) == Len(SplitCSV(line)) < 2

\* the label of the row is not in the concept table
UnknownLabel(line) ==
    /\ Len(SplitCSV(line)) >= 2
    /\ mapConcept(TrimSpace(SplitCSV(line)[1])).type = ""

\* the label of the row is in the concept table and each of its values
\* fails to parse
AllValuesFail(line) ==
    /\ Len(SplitCSV(line)) >= 2
    /\ mapConcept(TrimSpace(SplitCSV(line)[1])).type # ""
    /\ \A k \in 2..Len(SplitCSV(line)) : ParseFloat(SplitCSV(line)[k]).err

\* C12: a row with an unknown label, a row with fewer than 2 fields and a
\* row whose values all fail to parse contribute nothing and do not abort
\* the document: ParseReader returns what it returns for the document
\* without that row.
C12_SkippedRowIsAbsent ==
    (call.fn = "ParseReader" /\ ret.done)
    => \A i \in 2..Len(call.lines) :
          (TooFewFields(call.lines[i]) \/ UnknownLabel(call.lines[i])
              \/ AllValuesFail(call.lines[i]))
          => ParseReader(RemoveAt(call.lines, i)) = ret.val

\* the labels whose unit is Cent/kWh
LegacyLabels ==
    {"Precio marginal (Cent/kWh)",
     "Precio marginal en el sistema español (Cent/kWh)",
     "Precio marginal en el sistema portugués (Cent/kWh)"}

\* a plain decimal text with its decimal point moved one digit to the right
PointMovedRight(plain) ==
    LET dot == Index(plain, ".")
        int == IF dot = 0 THEN plain ELSE SubSeq(plain, 1, dot - 1)
        frac == IF dot = 0 THEN <<>> ELSE SubSeq(plain, dot + 1, Len(plain))
    IN  IF frac = <<>> THEN int \o <<"0">>
        ELSE int \o <<Head(frac)>> \o <<".">> \o Tail(frac)

\* the decimal that the text of a field denotes, times 10 for a legacy label
ExpectedValue(field, label) ==
    LET plain == EuropeanToPlain(TrimSpace(field))
    IN  StrconvParseFloat(IF label \in LegacyLabels THEN PointMovedRight(plain)
                          ELSE plain).val

\* C13: every value that the labeled-row parser emits for a row is the
\* decimal of the field at that hour times the multiplier of the row's
\* label: 10 for the labels in Cent/kWh, 1 for the labels in EUR/MWh and MWh.
C13_ValueTimesUnitMultiplier ==
    (call.fn = "parseDataLine" /\ ret.done /\ ret.val.record # NoRecord)
    => LET fields == SplitCSV(call.line)
           label == TrimSpace(fields[1])[1]
       IN  \A h \in DOMAIN ret.val.record.values :
              ret.val.record.values[h] = ExpectedValue(fields[h + 1], label)

C13_Witness ==
    /\ call.fn = "parseDataLine" /\ ret.done
    /\ call.line = <<"Precio marginal (Cent/kWh)", ";", "6", ",", "6", "9", "4", ";",
                     "4", ",", "8", "8", "8">>
    /\ ret.val.record.concept = PriceSpain
    /\ ret.val.record.values =
          (1 :> [kind |-> "num", int |-> <<"6", "6">>, frac |-> <<"9", "4">>]
           @@ 2 :> [kind |-> "num", int |-> <<"4", "8">>, frac |-> <<"8", "8">>])

\* the columns of the schema that the row under call has and whose field
\* parses, for a technology
ParsedColumns(tech) ==
    {c \in DOMAIN call.columnMapping :
        /\ call.columnMapping[c] = tech
        /\ c < Len(CallFields)
        /\ ~ParseFloat(CallFields[c + 1]).err}

\* C14: for every data row with a valid hour, the value of each field at a
\* schema-mapped column is assigned to the category that the schema maps the
\* column to, and to no other category: the record has the row's hour, each
\* mapped column's value under its category, and nothing under a category
\* that no column of the row is mapped to.
C14_ColumnGoesToItsCategory ==
    (call.fn = "parseTechnologyDataLine" /\ ret.done /\ ~ret.val.err)
    => /\ ret.val.record.Hour = ParseHour(CallFields[2]).val
       /\ \A tech \in Technologies :
             /\ \A c \in ParsedColumns(tech) :
                   ret.val.record.tech[tech] = ParseFloat(CallFields[c + 1]).val
             /\ ParsedColumns(tech) = {} => ret.val.record.tech[tech] = Zero

(***************************************************************************)
(* C15: once ctx is cancelled no retry of any date starts: no worker       *)
(* leaves the wait before a retry (lines 148-159) through its timer case   *)
(* while ctx.Done() is closed, so no worker is about to send a retry's     *)
(* request that it decided on after the cancellation.                      *)
(***************************************************************************)
C15_NoRetryAfterCancel ==
    \A w \in BagToSet(workers) : ~(w.pc = "request" /\ w.attempt > 0 /\ w.lateRetry)

C17_InFlightAtMostMaxConcurrent == InFlight <= config.MaxConcurrent

\* the pool is full: MaxConcurrent dates are in flight, one of them blocked
\* on the send of its result and another still being fetched
C17_Witness ==
    /\ config.MaxConcurrent = MaxConcurrentBound
    /\ InFlight = config.MaxConcurrent
    /\ WorkersAt({"send"}) # {}
    /\ WorkersAt({"request", "wait"}) # {}

(***************************************************************************)
(* C18: the configuration is immutable for one run, SetConfig during the   *)
(* run included: every worker reads the MaxRetries in force when the run   *)
(* started, so the attempt count that a failed date reports (the           *)
(* d.config.MaxRetries read at line 202) is the run's MaxRetries.          *)
(***************************************************************************)
C18_WorkersReadRunConfig ==
    \A i \in 1..Len(delivered) :
        delivered[i].r.err.code = ErrCodeDownload
        => delivered[i].r.err.attempts = runConfig.MaxRetries

\* the positions of the dots of a text
DotsOf(t) == {i \in 1..Len(t) : t[i] = "."}

\* t is made of digits and dots, with at least one digit
DigitsAndDots(t) ==
    /\ \A i \in 1..Len(t) : t[i] \in Digits \cup {"."}
    /\ \E i \in 1..Len(t) : t[i] \in Digits

C19_WitnessGrouped ==
    /\ call.fn = "ParseFloat" /\ ret.done
    /\ call.s = <<"1", "5", ".", "9", "3", "4", ".", "0", "0", "0">>
    /\ ret.val.val = [kind |-> "num", int |-> <<"1", "5", "9", "3", "4", "0", "0", "0">>,
                      frac |-> <<>>]

\* the DD/MM/YYYY tokens of the first line of the document under call
HeaderTokens == FindAllDates(call.lines[1])

\* the day, month and year that the text of a token spells
TokenDate(token) ==
    [day |-> DecimalValue(SubSeq(token, 1, 2)),
     month |-> DecimalValue(SubSeq(token, 4, 5)),
     year |-> DecimalValue(SubSeq(token, 7, 10))]

\* C20: the date of a parsed document is the one of the second DD/MM/YYYY
\* token of its first line, and a document whose first line holds fewer
\* than two such tokens fails with a ParseError and returns no data,
\* whatever its other lines hold.
C20_DateIsSecondHeaderToken ==
    (call.fn = "ParseReader" /\ ret.done /\ Len(call.lines) >= 1)
    => /\ Len(HeaderTokens) < 2
            => /\ ret.val.err.type = "OMIEError"
               /\ ret.val.err.code = ErrCodeParse
               /\ ret.val.val = NoData
       /\ (Len(HeaderTokens) >= 2 /\ ret.val.err = NilErr)
            => ret.val.val.date = TokenDate(HeaderTokens[2])

\* a header with the tokens 01/01/2006 and 13/11/2020, and a row with values:
\* the document is dated 13/11/2020
C20_Witness ==
    /\ call.fn = "ParseReader" /\ ret.done
    /\ Len(call.lines) >= 2
    /\ Len(HeaderTokens) = 2
    /\ TokenDate(HeaderTokens[1]) = [day |-> 1, month |-> 1, year |-> 2006]
    /\ ret.val.err = NilErr
    /\ ret.val.val.date = [day |-> 13, month |-> 11, year |-> 2020]
    /\ \E c \in conceptsToLoad : ret.val.val.data[c] # <<>>

\* a header with one token, followed by a row with values: ParseError
C20_WitnessOneToken ==
    /\ call.fn = "ParseReader" /\ ret.done
    /\ Len(call.lines) >= 2
    /\ Len(HeaderTokens) = 1
    /\ parseDataLine(call.lines[2]).record # NoRecord
    /\ parseDataLine(call.lines[2]).record.values # <<>>
    /\ ret.val.err.code = ErrCodeParse

\* the hour values that the rows of the document under call yield: the
\* values of the records of its rows
HourValuesOfRows ==
    UNION {LET row == parseDataLine(call.lines[i])
           IN  IF row.err \/ row.record = NoRecord THEN {}
               ELSE {<<i, h>> : h \in DOMAIN row.record.values} :
           i \in 2..Len(call.lines)}

(***************************************************************************)
(* C21: a document whose first line gives a date fails with the ParseError *)
(* "no valid data found" whenever its rows yield no hour value at all, and *)
(* returns a result only when at least one hour value was extracted.       *)
(***************************************************************************)
C21_NoValuesIsParseError ==
    (call.fn = "ParseReader" /\ ret.done /\ Len(call.lines) >= 1
        /\ parseDateFromHeader(call.lines[1]).err = NilErr)
    => IF HourValuesOfRows = {}
       THEN /\ ret.val.err.type = "OMIEError"
            /\ ret.val.err.code = ErrCodeParse
            /\ ret.val.val = NoData
       ELSE /\ ret.val.err = NilErr
            /\ \E c \in conceptsToLoad : ret.val.val.data[c] # <<>>

\* the categories whose name is, whatever the case of the letters, a
\* substring of the field
MatchedCategories(field) ==
    {knownTechs[name] : name \in {n \in DOMAIN knownTechs : Contains(ToUpper(field), n)}}

\* the lines (counted from 1) with at least one field that matches a category
MatchingLines(lines) ==
    {i \in 1..Len(lines) :
        \E j \in 1..Len(SplitCSV(lines[i])) : MatchedCategories(SplitCSV(lines[i])[j]) # {}}

\* the schema that the parser discovered for the lines under call
CallSchema ==
    IF call.fn = "parseColumnHeaders" THEN ret.val ELSE parseColumnHeaders(call.lines)

(***************************************************************************)
(* C22: the schema line is the first line with a field that contains a     *)
(* category name of the vocabulary, whatever the case of the letters; the  *)
(* schema maps the index of every field of that line that contains a       *)
(* category name to that category and no other index; when no line has     *)
(* such a field the document fails with a ParseError.                      *)
(***************************************************************************)
C22_SchemaIsFirstMatchingLine ==
    (call.fn \in {"parseColumnHeaders", "TechnologyParseReader"} /\ ret.done)
    => LET matching == MatchingLines(call.lines)
       IN  IF matching = {}
           THEN /\ DOMAIN CallSchema.mapping = {}
                /\ call.fn = "TechnologyParseReader" => ret.val.err.code = ErrCodeParse
           ELSE LET first == CHOOSE k \in matching : \A m \in matching : k <= m
                    fields == SplitCSV(call.lines[first])
                IN  /\ CallSchema.headerLineIndex = first - 1
                    /\ DOMAIN CallSchema.mapping =
                          {j \in 0..(Len(fields) - 1) : MatchedCategories(fields[j + 1]) # {}}
                    /\ \A j \in DOMAIN CallSchema.mapping :
                          CallSchema.mapping[j] \in MatchedCategories(fields[j + 1])

\* the line has at least 3 fields and its field 1 is an integer in 1..25
HasValidHour(line) ==
    LET fields == SplitCSV(TrimSpace(line))
    IN  /\ Len(fields) >= 3
        /\ LET hour == TrimSpace(fields[2])
           IN  /\ hour # <<>>
               /\ AllDigits(hour)
               /\ DecimalValue(hour) \in 1..25

\* the hours of the lines after line `from` that have a valid hour, in the
\* order of the lines
RECURSIVE ValidHoursAfter(_, _)
ValidHoursAfter(lines, from) ==
    IF from >= Len(lines) THEN <<>>
    ELSE (IF HasValidHour(lines[from + 1])
          THEN <<DecimalValue(TrimSpace(SplitCSV(TrimSpace(lines[from + 1]))[2]))>>
          ELSE <<>>)
         \o ValidHoursAfter(lines, from + 1)

(***************************************************************************)
(* C23: in a document with a date and a schema, the lines after the schema *)
(* line that have fewer than 3 fields or whose field 1 is not an integer   *)
(* in 1..25 are skipped and do not abort the document: the records are     *)
(* those of the other lines, in the order of their lines, each with the    *)
(* hour of its line, an hour in 1..25; the document fails only when no     *)
(* line is left.                                                           *)
(***************************************************************************)
C23_BadHourRowsAreSkipped ==
    (call.fn = "TechnologyParseReader" /\ ret.done /\ Len(call.lines) >= 3
        /\ parseHeader(call.lines[1]).err = NilErr
        /\ DOMAIN CallSchema.mapping # {})
    => LET hours == ValidHoursAfter(call.lines, CallSchema.headerLineIndex + 1)
       IN  /\ (ret.val.err = NilErr) = (hours # <<>>)
           /\ [i \in 1..Len(ret.val.val.records) |-> ret.val.val.records[i].Hour] = hours
           /\ \A i \in 1..Len(ret.val.val.records) :
                 ret.val.val.records[i].Hour \in 1..25

\* rows of hour 2, hour 26 and hour 1: the records are those of hours 2 and 1
C23_Witness ==
    /\ call.fn = "TechnologyParseReader" /\ ret.done
    /\ Len(call.lines) = 6
    /\ ~HasValidHour(call.lines[5])
    /\ ret.val.err = NilErr
    /\ Len(ret.val.val.records) = 2
    /\ ret.val.val.records[1].Hour = 2
    /\ ret.val.val.records[2].Hour = 1

(***************************************************************************)
(* C24: whatever the interleaving of the workers, of the consumer and of   *)
(* a cancellation, no date has two outcomes, and every outcome delivered   *)
(* carries a date of the range dateIni..dateEnd and the URL generated for  *)
(* that date.                                                              *)
(***************************************************************************)
C24_AtMostOneOutcomePerDate ==
    /\ \A d \in dateIni..dateEnd : Cardinality(DeliveredOf(d)) <= 1
    /\ \A i \in 1..Len(delivered) :
          /\ delivered[i].r.date \in dateIni..dateEnd
          /\ delivered[i].r.url = generateURL(delivered[i].r.date)

\* a cancelled run that has ended: an outcome was delivered after the
\* cancellation and a date of the range has none
C24_Witness ==
    /\ ctxDone
    /\ resultChanClosed
    /\ deliveredAfterCancel >= 1
    /\ \E d \in dateIni..dateEnd : DeliveredOf(d) = {}
    /\ \E d \in dateIni..dateEnd : Cardinality(DeliveredOf(d)) = 1

(***************************************************************************)
(* C25: resultChan is closed only after every worker of the pool has       *)
(* exited, and once it is closed it stays closed and no worker holds or    *)
(* sends a result: no send on the closed channel, no second close.         *)
(***************************************************************************)
C25_ClosedAfterAllWorkersExit ==
    resultChanClosed
    => /\ \A w \in BagToSet(workers) : w = ExitedW
       /\ WorkersAt({"check", "request", "wait", "send"}) = {}
       /\ ~ENABLED CloseResultChan
       /\ \A w \in BagToSet(workers), parse \in ParseOutcomes \cup {"none"} :
             ~ENABLED ImportRecv(w, parse)

\* a full pool has exited after a cancellation and the stream is closed
C25_Witness ==
    /\ resultChanClosed
    /\ ctxDone
    /\ Count(workers, ExitedW) = MaxConcurrentBound
    /\ Len(delivered) >= 1

(***************************************************************************)
(* C26: after a cancellation the workers go on to exit and resultChan to   *)
(* be closed even when the consumer has stopped reading: as long as        *)
(* resultChan is open some goroutine of URLResponses can take a step, so   *)
(* no worker stays blocked for ever on the send of its result.             *)
(***************************************************************************)
C26_CancelledRunWindsDown ==
    (ctxDone /\ ~resultChanClosed) => ENABLED Scheduled

(***************************************************************************)
(* C27: with MaxConcurrent <= 0 and no cancellation the stream is not      *)
(* closed before every date of the range has its outcome, and Import does  *)
(* not return an empty result with a nil error.                            *)
(***************************************************************************)
C27_EmptyPoolStillDelivers ==
    (config.MaxConcurrent <= 0 /\ ~ctxDone)
    => /\ resultChanClosed
            => \A d \in dateIni..dateEnd : Cardinality(DeliveredOf(d)) = 1
       /\ importPc = "returned"
            => ~(importRet.val = <<>> /\ importRet.err = NilErr)

RowsGiving(c, h) ==
    {i \in 2..Len(call.lines) :
        LET row == parseDataLine(call.lines[i])
        IN  /\ ~row.err
            /\ row.record # NoRecord
            /\ row.record.concept = c
            /\ h \in DOMAIN row.record.values}

LastOf(S) == CHOOSE i \in S : \A j \in S : j <= i

(***************************************************************************)
(* C29: when several rows of one document map to the same series, the      *)
(* result holds for each hour the value of the last row in document order  *)
(* that has a value for that hour; an hour that only an earlier row gives  *)
(* keeps the earlier row's value, and an hour no row gives is absent.      *)
(***************************************************************************)
C29_LastRowWinsPerHour ==
    (call.fn = "ParseReader" /\ ret.done /\ ret.val.err = NilErr)
    => \A c \in conceptsToLoad, h \in 1..MaxHours :
          IF RowsGiving(c, h) = {}
          THEN h \notin DOMAIN ret.val.val.data[c]
          ELSE /\ h \in DOMAIN ret.val.val.data[c]
               /\ ret.val.val.data[c][h]
                    = parseDataLine(call.lines[LastOf(RowsGiving(c, h))]).record.values[h]

\* two rows of one series: hour 1 is given by the first row only, hour 2 by
\* both with different values, and the result has the second row's hour 2
C29_Witness ==
    /\ call.fn = "ParseReader" /\ ret.done /\ ret.val.err = NilErr
    /\ Len(call.lines) = 3
    /\ \E c \in conceptsToLoad :
          /\ RowsGiving(c, 1) = {2}
          /\ RowsGiving(c, 2) = {2, 3}
          /\ parseDataLine(call.lines[2]).record.values[2]
               # parseDataLine(call.lines[3]).record.values[2]
          /\ ret.val.val.data[c][1] = parseDataLine(call.lines[2]).record.values[1]
          /\ ret.val.val.data[c][2] = parseDataLine(call.lines[3]).record.values[2]

\* a column that the schema maps to technology t holds a number in the row
\* under call
NumberReadFor(t) ==
    LET fields == SplitCSV(TrimSpace(call.line))
    IN  \E c \in DOMAIN call.columnMapping :
           /\ call.columnMapping[c] = t
           /\ c < Len(fields)
           /\ ~ParseFloat(fields[c + 1]).err
           /\ ParseFloat(fields[c + 1]).val # NaN

(***************************************************************************)
(* C30: in a record of the tabular parser the value of a category is NaN   *)
(* exactly when no number could be read for it (blank field, text that is  *)
(* no number, row shorter than the mapped column, category without a       *)
(* column), and is never reported as 0 in these cases.                     *)
(***************************************************************************)
C30_MissingIsNaN ==
    (call.fn = "parseTechnologyDataLine" /\ ret.done /\ ~ret.val.err)
    => \A t \in Technologies :
          (ret.val.record.tech[t] = NaN) <=> ~NumberReadFor(t)

====
